---- MODULE Spec2Model ----
(***************************************************************************)
(* PermissionService of authz-engine (src/src/core/permission.service.ts). *)
(*                                                                         *)
(* A permission string is modelled as the sequence of its tokens: names    *)
(* are sequences of tokens and the separators ":" and "." are tokens of    *)
(* their own, so that the template literals of the source are sequence     *)
(* concatenations and two differently-built strings can coincide exactly   *)
(* when the source's strings coincide.  JavaScript objects, Maps and Sets  *)
(* iterate in insertion order: they are modelled as sequences without      *)
(* duplicates.                                                             *)
(***************************************************************************)
EXTENDS Integers, Sequences, FiniteSets, TLC

(***************************************************************************)
(* Sequence helpers                                                        *)
(***************************************************************************)
Range(s) == {s[x] : x \in 1..Len(s)}

RECURSIVE Concat(_)
Concat(ss) == IF ss = <<>> THEN <<>> ELSE Head(ss) \o Concat(Tail(ss))

\* Set.add on an insertion-ordered set
SetAdd(s, e) == IF e \in Range(s) THEN s ELSE Append(s, e)

SetAddAll(s, es) ==
  LET all == s \o es
      first == {x \in 1..Len(all) : \A y \in 1..(x - 1) : all[y] # all[x]}
  IN [n \in 1..Cardinality(first) |->
        all[CHOOSE x \in first : Cardinality({y \in first : y <= x}) = n]]

(***************************************************************************)
(* Strings                                                                 *)
(***************************************************************************)
Tok(t) == <<t>>

\* `${prefix}:${action}`
Perm(prefix, action) == prefix \o <<":">> \o action

\* `${module}.${resource}`
ResourceName(module, resource) == module \o <<".">> \o resource

\* `role:${roleId}`
RoleNode(roleId) == <<"role", ":">> \o roleId

\* permission.startsWith('role:')
StartsWithRole(s) == Len(s) >= 2 /\ s[1] = "role" /\ s[2] = ":"

(***************************************************************************)
(* Configurations (RBACConfig)                                             *)
(***************************************************************************)
\* An optional property that is absent is a record with present = FALSE.
Absent == [present |-> FALSE, value |-> <<>>]
Given(v) == [present |-> TRUE, value |-> v]

Mod(name, resources) == [name |-> Tok(name), resources |-> resources]
Ent(action, implied) == [action |-> Tok(action), implied |-> implied]
Role(id, permissions, inherits) ==
  [id |-> Tok(id), permissions |-> permissions, inherits |-> inherits]

\* the hierarchy installed when config.hierarchy is absent
DefaultHierarchy ==
  << Ent("delete", <<Tok("update"), Tok("create"), Tok("read")>>),
     Ent("update", <<Tok("create"), Tok("read")>>),
     Ent("create", <<Tok("read")>>),
     Ent("read", <<>>) >>

\* the custom hierarchy of the usability test and of the README
ApproveHierarchy ==
  << Ent("delete", <<Tok("update"), Tok("approve")>>),
     Ent("approve", <<Tok("update")>>),
     Ent("update", <<Tok("create"), Tok("read")>>),
     Ent("create", <<Tok("read")>>),
     Ent("read", <<>>) >>

\* the default chain with its keys declared lowest first
ReversedHierarchy ==
  << Ent("read", <<>>),
     Ent("create", <<Tok("read")>>),
     Ent("update", <<Tok("read"), Tok("create")>>),
     Ent("delete", <<Tok("read"), Tok("create"), Tok("update")>>) >>

\* a chain declared by direct steps only, lowest key first
StepHierarchy ==
  << Ent("read", <<>>),
     Ent("create", <<Tok("read")>>),
     Ent("update", <<Tok("create")>>) >>

\* implied actions that are not keys: "create" and "read" are not known actions
OpenHierarchy ==
  << Ent("delete", <<Tok("update"), Tok("approve")>>),
     Ent("approve", <<Tok("update")>>),
     Ent("update", <<Tok("create"), Tok("read")>>) >>

SmallHierarchy == << Ent("write", <<Tok("read")>>), Ent("read", <<>>) >>

CyclicHierarchy ==
  << Ent("write", <<Tok("read")>>), Ent("read", <<Tok("write")>>) >>

SelfHierarchy == << Ent("read", <<Tok("read")>>) >>

Hierarchies ==
  { Absent, Given(ApproveHierarchy), Given(ReversedHierarchy), Given(StepHierarchy),
    Given(OpenHierarchy), Given(SmallHierarchy), Given(CyclicHierarchy),
    Given(SelfHierarchy) }

ModuleDecls ==
  { << Mod("users", <<Tok("profile")>>) >>,
    << Mod("users", <<Tok("profile"), Tok("settings")>>) >>,
    << Mod("users", <<Tok("profile")>>), Mod("posts", <<>>) >>,
    << Mod("posts", <<>>), Mod("users", <<Tok("profile")>>) >> }

usersWrite == Perm(Tok("users"), Tok("write"))
usersRead == Perm(Tok("users"), Tok("read"))
profileRead == Perm(ResourceName(Tok("users"), Tok("profile")), Tok("read"))

RoleDecls ==
  { \* a valid chain: admin inherits viewer
    << Role("viewer", <<profileRead>>, <<>>),
       Role("admin", <<usersWrite>>, <<Tok("viewer")>>) >>,
    << Role("admin", <<usersWrite>>, <<Tok("viewer")>>),
       Role("viewer", <<profileRead>>, <<>>) >>,
    \* nested role composition through a "role:" grant
    << Role("viewer", <<usersRead>>, <<>>),
       Role("manager", <<RoleNode(Tok("viewer")), usersWrite>>, <<>>) >>,
    \* a chain of three roles declared out of order: admin, guest, viewer
    << Role("admin", <<>>, <<Tok("viewer")>>),
       Role("guest", <<usersRead>>, <<>>),
       Role("viewer", <<>>, <<Tok("guest")>>) >>,
    \* two roles inheriting each other
    << Role("admin", <<>>, <<Tok("viewer")>>),
       Role("viewer", <<usersRead>>, <<Tok("admin")>>) >>,
    \* a role inheriting itself, a role granting itself
    << Role("admin", <<usersRead>>, <<Tok("admin")>>) >>,
    << Role("admin", <<RoleNode(Tok("admin"))>>, <<>>) >>,
    \* a cycle through nested "role:" grants
    << Role("admin", <<RoleNode(Tok("viewer"))>>, <<>>),
       Role("viewer", <<usersRead, RoleNode(Tok("admin"))>>, <<>>) >>,
    \* a cycle through one "role:" grant and one inherits
    << Role("admin", <<RoleNode(Tok("viewer"))>>, <<>>),
       Role("viewer", <<>>, <<Tok("admin")>>) >>,
    \* invalid references
    << Role("manager", <<RoleNode(Tok("ghost"))>>, <<>>) >>,
    << Role("admin", <<usersRead, Perm(Tok("users"), Tok("fake_action"))>>, <<>>) >>,
    << Role("admin", <<>>, <<Tok("ghost_role")>>) >>,
    \* a role outside the cycle of the two roles it leads to
    << Role("admin", <<>>, <<Tok("viewer")>>),
       Role("viewer", <<usersRead>>, <<Tok("guest")>>),
       Role("guest", <<>>, <<Tok("viewer")>>) >>,
    \* two roles inheriting each other, one of them granting an unknown permission
    << Role("admin", <<Perm(Tok("users"), Tok("fake_action"))>>, <<Tok("viewer")>>),
       Role("viewer", <<usersRead>>, <<Tok("admin")>>) >>,
    \* an empty roles object
    << >> }

RoleChoices == {Given(r) : r \in RoleDecls}

\* roles are declared over this base
RoleBaseModules == << Mod("users", <<Tok("profile")>>) >>

\* one role over a hierarchy whose implied actions create and read are no keys
EditorConfig ==
  [modules |-> RoleBaseModules, hierarchy |-> Given(OpenHierarchy),
   roles |-> Given(<< Role("editor", <<Perm(Tok("users"), Tok("update"))>>, <<>>) >>)]

\* DEFAULT_RBAC_CONFIG of src/config/default.config.ts
DEFAULT_RBAC_CONFIG ==
  [modules |->
     << Mod("users", <<Tok("profile"), Tok("settings"), Tok("roles")>>),
        Mod("posts", <<Tok("draft"), Tok("published"), Tok("comments")>>),
        Mod("pages", <<Tok("content"), Tok("metadata"), Tok("versions")>>),
        Mod("comments", <<Tok("content"), Tok("moderation")>>),
        Mod("tags", <<Tok("management")>>),
        Mod("admin", <<Tok("users"), Tok("content"), Tok("settings"), Tok("logs")>>),
        Mod("analytics", <<Tok("dashboard"), Tok("reports"), Tok("exports")>>) >>,
   hierarchy |-> Absent,
   roles |-> Given(
     << Role("super_admin",
             <<Perm(Tok("*"), Tok("delete")), Perm(Tok("*"), Tok("*"))>>, <<>>),
        Role("system_admin",
             <<Perm(Tok("admin"), Tok("*"))>>, <<Tok("editor")>>),
        Role("editor",
             <<Perm(Tok("posts"), Tok("update")), Perm(Tok("pages"), Tok("update")),
               Perm(Perm(Tok("comments"), Tok("moderation")), Tok("update"))>>,
             <<Tok("viewer")>>),
        Role("viewer",
             <<Perm(Tok("posts"), Tok("read")), Perm(Tok("pages"), Tok("read")),
               Perm(Tok("comments"), Tok("read"))>>, <<>>) >>)]

\* a module literally named role, and a role whose id is an action name
RoleModuleConfig ==
  [modules |-> << Mod("users", <<Tok("profile")>>), Mod("role", <<>>) >>,
   hierarchy |-> Given(SmallHierarchy),
   roles |-> Given(<< Role("read", <<usersWrite>>, <<>>) >>)]

CandidateConfigs ==
  {[modules |-> m, hierarchy |-> h, roles |-> Absent] :
      m \in ModuleDecls, h \in Hierarchies}
  \cup
  {[modules |-> RoleBaseModules, hierarchy |-> Given(SmallHierarchy), roles |-> r] :
      r \in RoleChoices}
  \cup
  {EditorConfig, RoleModuleConfig, DEFAULT_RBAC_CONFIG}

(***************************************************************************)
(* constructor, lines 25-36: ACTION_HIERARCHY and ACTIONS                  *)
(***************************************************************************)
ActionHierarchy(c) ==
  IF c.hierarchy.present THEN c.hierarchy.value ELSE DefaultHierarchy

Actions(c) ==
  IF c.hierarchy.present
    THEN [x \in 1..Len(c.hierarchy.value) |-> c.hierarchy.value[x].action]
    ELSE <<Tok("delete"), Tok("update"), Tok("create"), Tok("read")>>

Star == Tok("*")

(***************************************************************************)
(* generateAllPermissions                                                  *)
(***************************************************************************)
ScopePermissions(c, prefix) ==
  [x \in 1..Len(Actions(c)) |-> Perm(prefix, Actions(c)[x])]

ModulePermissions(c, m) ==
  <<Perm(m.name, Star)>>
  \o ScopePermissions(c, m.name)
  \o Concat([y \in 1..Len(m.resources) |->
        <<Perm(ResourceName(m.name, m.resources[y]), Star)>>
        \o ScopePermissions(c, ResourceName(m.name, m.resources[y]))])

RolePermissions(c) ==
  IF ~c.roles.present THEN <<>>
  ELSE [x \in 1..Len(c.roles.value) |-> RoleNode(c.roles.value[x].id)]

\* generateAllPermissions generating `*:*` beside the `*:action` strings
generateAllPermissionsWithGlobalStar(c) ==
  SetAddAll(<<>>,
    <<Perm(Star, Star)>>
    \o ScopePermissions(c, Star)
    \o Concat([x \in 1..Len(c.modules) |-> ModulePermissions(c, c.modules[x])])
    \o RolePermissions(c))

generateAllPermissions(c) ==
  SetAddAll(<<>>,
    ScopePermissions(c, Star)
    \o Concat([x \in 1..Len(c.modules) |-> ModulePermissions(c, c.modules[x])])
    \o RolePermissions(c))


(***************************************************************************)
(* validateRolePermissions                                                 *)
(***************************************************************************)
NoError == [kind |-> "none", role |-> <<>>, subject |-> <<>>]
Failure(kind, role, subject) == [kind |-> kind, role |-> role, subject |-> subject]

\* the checks of one role without the checks of lines 88-94
RoleChecksPermissionsOnly(catalog, role) ==
  [x \in 1..Len(role.permissions) |->
     LET permission == role.permissions[x] IN
     IF StartsWithRole(permission)
       THEN [ok |-> permission \in catalog,
             err |-> Failure("InvalidRoleReference", role.id, permission)]
       ELSE [ok |-> permission \in catalog,
             err |-> Failure("InvalidPermission", role.id, permission)]]

\* the checks of one role, in the order the source performs them
RoleChecks(catalog, role) ==
  [x \in 1..Len(role.permissions) |->
     LET permission == role.permissions[x] IN
     IF StartsWithRole(permission)
       THEN [ok |-> permission \in catalog,
             err |-> Failure("InvalidRoleReference", role.id, permission)]
       ELSE [ok |-> permission \in catalog,
             err |-> Failure("InvalidPermission", role.id, permission)]]
  \o
  [x \in 1..Len(role.inherits) |->
     [ok |-> RoleNode(role.inherits[x]) \in catalog,
      err |-> Failure("NonExistentParent", role.id, role.inherits[x])]]

RECURSIVE FirstFailure(_)
FirstFailure(checks) ==
  IF checks = <<>> THEN NoError
  ELSE IF ~Head(checks).ok THEN Head(checks).err
  ELSE FirstFailure(Tail(checks))

\* the error validateRolePermissions throws, NoError when it returns
validateRolePermissions(c, catalog) ==
  IF ~c.roles.present THEN NoError
  ELSE FirstFailure(Concat([x \in 1..Len(c.roles.value) |->
                              RoleChecks(catalog, c.roles.value[x])]))

(***************************************************************************)
(* buildPermissionGraph                                                    *)
(***************************************************************************)
EmptyGraph == [grants |-> <<>>, grantedBy |-> <<>>, order |-> <<>>]

\* grants.get(a)?.has(b)
Has(g, a, b) ==
  a \in DOMAIN g.grants /\ \E x \in 1..Len(g.grants[a]) : g.grants[a][x] = b

\* grantedBy.get(b)?.has(a)
HasBy(g, b, a) == b \in DOMAIN g.grantedBy /\ a \in g.grantedBy[b]

MapSet(f, key, val) == [x \in DOMAIN f \cup {key} |-> IF x = key THEN val ELSE f[x]]
MapGet(f, key, default) == IF key \in DOMAIN f THEN f[key] ELSE default

addGrant(g, grantor, grantee) ==
  [grants    |-> MapSet(g.grants, grantor,
                        SetAdd(MapGet(g.grants, grantor, <<>>), grantee)),
   grantedBy |-> MapSet(g.grantedBy, grantee,
                        MapGet(g.grantedBy, grantee, {}) \cup {grantor}),
   order     |-> SetAdd(g.order, grantor)]

\* applyHierarchy with the arguments of line 224 exchanged
applyHierarchyReversed(c, prefix) ==
  Concat([x \in 1..Len(ActionHierarchy(c)) |->
            LET e == ActionHierarchy(c)[x] IN
            [y \in 1..Len(e.implied) |->
               <<Perm(prefix, e.implied[y]), Perm(prefix, e.action)>>]])
  \o [x \in 1..Len(Actions(c)) |-> <<Perm(prefix, Star), Perm(prefix, Actions(c)[x])>>]

\* the addGrant calls of applyHierarchy(prefix), in order
applyHierarchy(c, prefix) ==
  Concat([x \in 1..Len(ActionHierarchy(c)) |->
            LET e == ActionHierarchy(c)[x] IN
            [y \in 1..Len(e.implied) |->
               <<Perm(prefix, e.action), Perm(prefix, e.implied[y])>>]])
  \o [x \in 1..Len(Actions(c)) |-> <<Perm(prefix, Star), Perm(prefix, Actions(c)[x])>>]

\* one resource of a module, the cascade of lines 246 and 248 pointing upward
ResourceEdgesUpward(c, module, resource) ==
  LET resourceName == ResourceName(module, resource) IN
  applyHierarchy(c, resourceName)
  \o [x \in 1..Len(Actions(c)) |->
        <<Perm(resourceName, Actions(c)[x]), Perm(module, Actions(c)[x])>>]
  \o << <<Perm(resourceName, Star), Perm(module, Star)>> >>

\* lines 240-249: one resource of a module
ResourceEdges(c, module, resource) ==
  LET resourceName == ResourceName(module, resource) IN
  applyHierarchy(c, resourceName)
  \o [x \in 1..Len(Actions(c)) |->
        <<Perm(module, Actions(c)[x]), Perm(resourceName, Actions(c)[x])>>]
  \o << <<Perm(module, Star), Perm(resourceName, Star)>> >>

\* the modules loop with `module:*` left out of the edges of lines 229-231
ModuleEdgesWithoutWildcard(c) ==
  Concat([x \in 1..Len(c.modules) |->
            SubSeq(applyHierarchy(c, c.modules[x].name), 1,
                   Len(applyHierarchy(c, c.modules[x].name)) - Len(Actions(c)))
            \o Concat([y \in 1..Len(c.modules[x].resources) |->
                 ResourceEdges(c, c.modules[x].name, c.modules[x].resources[y])])])

\* lines 237-250
ModuleEdges(c) ==
  Concat([x \in 1..Len(c.modules) |->
            applyHierarchy(c, c.modules[x].name)
            \o Concat([y \in 1..Len(c.modules[x].resources) |->
                 ResourceEdges(c, c.modules[x].name, c.modules[x].resources[y])])])

\* lines 253-258
GlobalCascadeEdges(c) ==
  Concat([x \in 1..Len(Actions(c)) |->
            [y \in 1..Len(c.modules) |->
               <<Perm(Star, Actions(c)[x]), Perm(c.modules[y].name, Actions(c)[x])>>]])

\* lines 261-277
RoleEdges(c) ==
  IF ~c.roles.present THEN <<>>
  ELSE Concat([x \in 1..Len(c.roles.value) |->
         LET role == c.roles.value[x]
             roleNode == RoleNode(role.id) IN
         [y \in 1..Len(role.permissions) |-> <<roleNode, role.permissions[y]>>]
         \o [y \in 1..Len(role.inherits) |-> <<roleNode, RoleNode(role.inherits[y])>>]])

\* every addGrant call of buildPermissionGraph, in order
buildPermissionGraph(c) ==
  applyHierarchy(c, Star) \o ModuleEdges(c) \o GlobalCascadeEdges(c) \o RoleEdges(c)


(***************************************************************************)
(* State                                                                   *)
(***************************************************************************)
VARIABLES
  config,          \* the RBACConfig passed to the constructor
  pc,              \* the stage the constructor is in; "ready" once it returned
  allPermissions,  \* this.allPermissions, in insertion order
  graph,           \* this.graph: grants, grantedBy; order = key order of grants
  next,            \* buildPermissionGraph: the addGrant call to perform next
  visited,         \* detectCircularDependencies: visited
  stack,           \* detectCircularDependencies: the active calls of check
  cursor,          \* detectCircularDependencies: position of the loop of line 308
  fw,              \* closure: the loop counters (k, i, j) of the next iteration
  error,           \* the error the constructor threw
  ret,             \* the last query and what it returned
  mutations        \* how often a caller has modified a Set a query returned

vars == <<config, pc, allPermissions, graph, next, visited, stack, cursor, fw,
          error, ret, mutations>>

Configs == CandidateConfigs

NoQuery == [op |-> "none", held |-> {}, permission |-> <<>>, value |-> FALSE]

Init ==
  /\ config \in Configs
  /\ pc = "generateAllPermissions"
  /\ allPermissions = <<>>
  /\ graph = EmptyGraph
  /\ next = 1
  /\ visited = {}
  /\ stack = <<>>
  /\ cursor = 1
  /\ fw = <<1, 1, 1>>
  /\ error = NoError
  /\ ret = NoQuery
  /\ mutations = 0

(***************************************************************************)
(* constructor, lines 38-40                                                *)
(***************************************************************************)
\* the constructor going from line 38 to line 40, without line 39
GenerateAllPermissionsThenBuild ==
  /\ pc = "generateAllPermissions"
  /\ allPermissions' = generateAllPermissions(config)
  /\ pc' = "buildPermissionGraph"
  /\ UNCHANGED <<mutations, config, graph, next, visited, stack, cursor, fw, error, ret>>

GenerateAllPermissions ==
  /\ pc = "generateAllPermissions"
  /\ allPermissions' = generateAllPermissions(config)
  /\ pc' = "validateRolePermissions"
  /\ UNCHANGED <<mutations, config, graph, next, visited, stack, cursor, fw, error, ret>>

\* validation whose error is recorded but does not abort the constructor
ValidateRolePermissionsContinue ==
  /\ pc = "validateRolePermissions"
  /\ error' = validateRolePermissions(config, Range(allPermissions))
  /\ pc' = "buildPermissionGraph"
  /\ UNCHANGED <<mutations, config, allPermissions, graph, next, visited, stack, cursor, fw, ret>>

ValidateRolePermissions ==
  /\ pc = "validateRolePermissions"
  /\ LET e == validateRolePermissions(config, Range(allPermissions)) IN
       /\ error' = e
       /\ pc' = IF e = NoError THEN "buildPermissionGraph" ELSE "failed"
  /\ UNCHANGED <<mutations, config, allPermissions, graph, next, visited, stack, cursor, fw, ret>>

\* one addGrant call of buildPermissionGraph
AddGrant ==
  /\ pc = "buildPermissionGraph"
  /\ next <= Len(buildPermissionGraph(config))
  /\ LET e == buildPermissionGraph(config)[next] IN
       graph' = addGrant(graph, e[1], e[2])
  /\ next' = next + 1
  /\ UNCHANGED <<mutations, config, pc, allPermissions, visited, stack, cursor, fw, error, ret>>

\* line 279: the graph is returned and assigned to this.graph
BuildReturn ==
  /\ pc = "buildPermissionGraph"
  /\ next > Len(buildPermissionGraph(config))
  /\ pc' = "detectCircularDependencies"
  /\ UNCHANGED <<mutations, config, allPermissions, graph, next, visited, stack, cursor, fw,
                 error, ret>>

(***************************************************************************)
(* detectCircularDependencies                                              *)
(***************************************************************************)
StackNodes(st) == {st[x].node : x \in 1..Len(st)}

\* this.graph.grants.get(node), nothing to iterate when undefined
Targets(g, node) == MapGet(g.grants, node, <<>>)

\* check(node) throwing for every node seen before, on the stack or not
CheckCallThrowsOnVisited(node, st, vis) ==
  IF node \in StackNodes(st) \/ node \in vis
    THEN [throws |-> TRUE, stack |-> st, visited |-> vis]
  ELSE [throws |-> FALSE,
        stack |-> Append(st, [node |-> node, at |-> 0]),
        visited |-> vis \cup {node}]

\* check(node) with the test of line 293 made before the test of line 290
CheckCallVisitedFirst(node, st, vis) ==
  IF node \in vis
    THEN [throws |-> FALSE, stack |-> st, visited |-> vis]
  ELSE IF node \in StackNodes(st)
    THEN [throws |-> TRUE, stack |-> st, visited |-> vis]
  ELSE [throws |-> FALSE,
        stack |-> Append(st, [node |-> node, at |-> 0]),
        visited |-> vis \cup {node}]

\* check(node), lines 290-296: throw, return at once, or enter the node
CheckCall(node, st, vis) ==
  IF node \in StackNodes(st)
    THEN [throws |-> TRUE, stack |-> st, visited |-> vis]
  ELSE IF node \in vis
    THEN [throws |-> FALSE, stack |-> st, visited |-> vis]
  ELSE [throws |-> FALSE,
        stack |-> Append(st, [node |-> node, at |-> 0]),
        visited |-> vis \cup {node}]

\* line 308-309: the next catalog member is checked
DetectCall ==
  /\ pc = "detectCircularDependencies"
  /\ stack = <<>>
  /\ cursor <= Len(allPermissions)
  /\ LET r == CheckCall(allPermissions[cursor], stack, visited) IN
       /\ stack' = r.stack
       /\ visited' = r.visited
       /\ pc' = IF r.throws THEN "failed" ELSE pc
       /\ error' = IF r.throws
                     THEN Failure("CircularDependency", <<>>, allPermissions[cursor])
                     ELSE error
  /\ cursor' = cursor + 1
  /\ UNCHANGED <<mutations, config, allPermissions, graph, next, fw, ret>>

\* lines 300-302: the innermost active call checks its next target
DetectVisit ==
  /\ pc = "detectCircularDependencies"
  /\ stack # <<>>
  /\ LET top == stack[Len(stack)]
         targets == Targets(graph, top.node) IN
       /\ top.at < Len(targets)
       /\ LET target == targets[top.at + 1]
              advanced == [stack EXCEPT ![Len(stack)].at = top.at + 1]
              r == CheckCall(target, advanced, visited) IN
            /\ stack' = r.stack
            /\ visited' = r.visited
            /\ pc' = IF r.throws THEN "failed" ELSE pc
            /\ error' = IF r.throws
                          THEN Failure("CircularDependency", <<>>, target)
                          ELSE error
  /\ UNCHANGED <<mutations, config, allPermissions, graph, next, cursor, fw, ret>>

\* line 305: the innermost active call has no target left
DetectReturn ==
  /\ pc = "detectCircularDependencies"
  /\ stack # <<>>
  /\ LET top == stack[Len(stack)] IN
       top.at >= Len(Targets(graph, top.node))
  /\ stack' = SubSeq(stack, 1, Len(stack) - 1)
  /\ UNCHANGED <<mutations, config, pc, allPermissions, graph, next, visited, cursor, fw,
                 error, ret>>

\* the loop of line 308 is over
DetectDone ==
  /\ pc = "detectCircularDependencies"
  /\ stack = <<>>
  /\ cursor > Len(allPermissions)
  /\ pc' = "applyFloydWarshallTransitiveClosure"
  /\ UNCHANGED <<mutations, config, allPermissions, graph, next, visited, stack, cursor, fw,
                 error, ret>>


(***************************************************************************)
(* applyFloydWarshallTransitiveClosure                                     *)
(***************************************************************************)
Min(S) == CHOOSE x \in S : \A y \in S : x <= y

\* line 324 without line 325
closureInsertForwardOnly(g, i, j) ==
  [grants    |-> IF i \in DOMAIN g.grants
                   THEN MapSet(g.grants, i, SetAdd(g.grants[i], j))
                   ELSE g.grants,
   grantedBy |-> g.grantedBy,
   order     |-> g.order]

\* lines 324-325; ?. skips the add when the map has no such key
closureInsert(g, i, j) ==
  [grants    |-> IF i \in DOMAIN g.grants
                   THEN MapSet(g.grants, i, SetAdd(g.grants[i], j))
                   ELSE g.grants,
   grantedBy |-> IF j \in DOMAIN g.grantedBy
                   THEN MapSet(g.grantedBy, j, g.grantedBy[j] \cup {i})
                   ELSE g.grantedBy,
   order     |-> g.order]

NoHit == [found |-> FALSE, at |-> <<0, 0, 0>>, from |-> <<>>, to |-> <<>>]
Hit(a, b, c, from, to) == [found |-> TRUE, at |-> <<a, b, c>>, from |-> from, to |-> to]

\* The same loops nested the other way round: i outermost, then k, then j.
RECURSIVE FirstHitIOuter(_, _, _, _, _)
FirstHitIOuter(g, all, i, k, j) ==
  IF i > Len(all) THEN NoHit
  ELSE LET js(kk, lo) == {y \in lo..Len(all) : Has(g, all[kk], all[y])}
           later == {x \in (k + 1)..Len(all) : Has(g, all[i], all[x]) /\ js(x, 1) # {}}
       IN IF k <= Len(all) /\ Has(g, all[i], all[k]) /\ js(k, j) # {}
            THEN Hit(i, k, Min(js(k, j)), all[i], all[Min(js(k, j))])
          ELSE IF later # {}
            THEN Hit(i, Min(later), Min(js(Min(later), 1)),
                     all[i], all[Min(js(Min(later), 1))])
          ELSE FirstHitIOuter(g, all, i + 1, 1, 1)

\* The same loops with the loop of line 319 ending one element early.
RECURSIVE FirstHitKShort(_, _, _, _, _)
FirstHitKShort(g, all, k, i, j) ==
  IF k > Len(all) - 1 THEN NoHit
  ELSE LET js(lo) == {y \in lo..Len(all) : Has(g, all[k], all[y])}
           later == {x \in (i + 1)..Len(all) : Has(g, all[x], all[k])}
       IN IF i <= Len(all) /\ Has(g, all[i], all[k]) /\ js(j) # {}
            THEN Hit(k, i, Min(js(j)), all[i], all[Min(js(j))])
          ELSE IF later # {} /\ js(1) # {}
            THEN Hit(k, Min(later), Min(js(1)), all[Min(later)], all[Min(js(1))])
          ELSE FirstHitKShort(g, all, k + 1, 1, 1)

\* The loops of lines 319-323 run from iteration (k, i, j) of the array `all`
\* up to the first iteration that reaches line 324: the loop counters of that
\* iteration and the pair (i, j) it inserts, or NoHit when the loops end
\* without reaching it.  Nothing changes the graph on the way, so every test
\* is made on g.
RECURSIVE FirstHit(_, _, _, _, _)
FirstHit(g, all, k, i, j) ==
  IF k > Len(all) THEN NoHit
  ELSE LET js(lo) == {y \in lo..Len(all) : Has(g, all[k], all[y])}
           later == {x \in (i + 1)..Len(all) : Has(g, all[x], all[k])}
       IN IF i <= Len(all) /\ Has(g, all[i], all[k]) /\ js(j) # {}
            THEN Hit(k, i, Min(js(j)), all[i], all[Min(js(j))])
          ELSE IF later # {} /\ js(1) # {}
            THEN Hit(k, Min(later), Min(js(1)), all[Min(later)], all[Min(js(1))])
          ELSE FirstHit(g, all, k + 1, 1, 1)

\* the loops advance to the next execution of lines 324-325 and perform it
ClosureStep ==
  /\ pc = "applyFloydWarshallTransitiveClosure"
  /\ LET hit == FirstHit(graph, allPermissions, fw[1], fw[2], fw[3]) IN
       /\ hit.found
       /\ graph' = closureInsert(graph, hit.from, hit.to)
       /\ fw' = <<hit.at[1], hit.at[2], hit.at[3] + 1>>
  /\ UNCHANGED <<mutations, config, pc, allPermissions, next, visited, stack, cursor, error, ret>>

\* the loops end; the constructor returns (lines 44-59 touch neither the
\* catalog nor the graph)
ClosureDone ==
  /\ pc = "applyFloydWarshallTransitiveClosure"
  /\ ~FirstHit(graph, allPermissions, fw[1], fw[2], fw[3]).found
  /\ pc' = "ready"
  /\ UNCHANGED <<mutations, config, allPermissions, graph, next, visited, stack, cursor, fw,
                 error, ret>>

(***************************************************************************)
(* Queries                                                                 *)
(***************************************************************************)
RoleIds(c) ==
  IF c.roles.present THEN {c.roles.value[x].id : x \in 1..Len(c.roles.value)} ELSE {}

\* property names every object literal inherits from Object.prototype
ObjectPrototypeKeys == {Tok("toString"), Tok("constructor")}

\* this.config.roles && this.config.roles[userPerm]
RolesLookup(c, userPerm) ==
  c.roles.present /\ (userPerm \in RoleIds(c) \/ userPerm \in ObjectPrototypeKeys)

\* lines 345-347
Qualify(c, userPerm) ==
  IF RolesLookup(c, userPerm) /\ ~StartsWithRole(userPerm)
    THEN RoleNode(userPerm)
    ELSE userPerm

hasPermission(c, g, userPermissions, requiredPermission) ==
  \E h \in userPermissions :
     LET userPerm == Qualify(c, h) IN
       \/ userPerm = requiredPermission
       \/ Has(g, userPerm, requiredPermission)

whatDoesPermissionGrant(g, permission) == Range(MapGet(g.grants, permission, <<>>))

\* lines 360-373; the Set returned is given by its members
getEffectivePermissions(g, userPermissions) ==
  UNION {{userPerm} \cup Range(MapGet(g.grants, userPerm, <<>>)) :
           userPerm \in userPermissions}

\* whoGrantsPermission without lines 382-384
whoGrantsPermissionIndexOnly(all, g, permission) ==
  MapGet(g.grantedBy, permission, {})

\* lines 379-386
whoGrantsPermission(all, g, permission) ==
  MapGet(g.grantedBy, permission, {})
  \cup (IF permission \in Range(all) THEN {permission} ELSE {})

RECURSIVE SumLen(_)
SumLen(ss) == IF ss = <<>> THEN 0 ELSE Len(Head(ss)) + SumLen(Tail(ss))

\* getStats counting the keys of the forward index instead of its pairs
getStatsCountingGrantors(c, all, g) ==
  [totalPermissions   |-> Len(all),
   grantRelationships |-> Len(g.order),
   modules            |-> Len(c.modules),
   resources          |-> SumLen([x \in 1..Len(c.modules) |-> c.modules[x].resources]),
   actions            |-> Len(Actions(c))]

\* lines 398-413
getStats(c, all, g) ==
  [totalPermissions   |-> Len(all),
   grantRelationships |-> SumLen([x \in 1..Len(g.order) |-> g.grants[g.order[x]]]),
   modules            |-> Len(c.modules),
   resources          |-> SumLen([x \in 1..Len(c.modules) |-> c.modules[x].resources]),
   actions            |-> Len(Actions(c))]

\* The words and separators of the strings in use, in ascending order of their
\* UTF-16 code units.  No word is followed by a separator where another word
\* it is a prefix of goes on, so comparing two strings word by word gives the
\* order Array.prototype.sort() gives without a compare function.
CodeUnitOrder ==
  << "*", ".", ":", "admin", "approve", "constructor", "create", "delete", "editor",
     "fake_action", "ghost", "ghost_role", "guest", "manager", "posts", "profile",
     "read", "role", "settings", "toString", "update", "users", "viewer", "write" >>

CodeUnitRank(t) == CHOOSE x \in 1..Len(CodeUnitOrder) : CodeUnitOrder[x] = t

RECURSIVE StringLess(_, _)
StringLess(a, b) ==
  IF b = <<>> THEN FALSE
  ELSE IF a = <<>> THEN TRUE
  ELSE IF Head(a) # Head(b) THEN CodeUnitRank(Head(a)) < CodeUnitRank(Head(b))
  ELSE StringLess(Tail(a), Tail(b))

\* lines.join('\n')
RECURSIVE Join(_)
Join(lines) ==
  IF lines = <<>> THEN <<>>
  ELSE IF Len(lines) = 1 THEN Head(lines)
  ELSE Head(lines) \o <<"\n">> \o Join(Tail(lines))

\* the prefix of line 427: two spaces, U+2514, U+2500, one space
Branch == "  \\u2514\\u2500 "

\* lines 421-431: the block of one grantor
GrantorBlock(grantor, grants) ==
  IF Len(grants) > 0
    THEN << grantor \o <<" grants:">> >>
         \o [y \in 1..Len(grants) |-> <<Branch>> \o SortSeq(grants, StringLess)[y]]
         \o << <<>> >>
    ELSE <<>>

\* lines 418-434
visualizeGraph(g) ==
  Join(Concat([x \in 1..Len(g.order) |-> GrantorBlock(g.order[x], g.grants[g.order[x]])]))

\* lines 439-452
checkPermissionDetailed(c, g, userPermissions, requiredPermission) ==
  LET allowed == hasPermission(c, g, userPermissions, requiredPermission) IN
  [allowed         |-> allowed,
   permission      |-> requiredPermission,
   userPermissions |-> userPermissions,
   reason          |-> IF allowed
                         THEN <<"Permission granted">>
                         ELSE <<"User does not have required permission: ">>
                              \o requiredPermission]

MaxHeld == 2

\* the strings queries are made with: every node of the graph, every catalog
\* member, bare role ids, an inherited property name and an unknown string
QueryStrings ==
  Range(allPermissions) \cup DOMAIN graph.grants \cup DOMAIN graph.grantedBy
  \cup RoleIds(config) \cup {Tok("toString"), Tok("ghost")}

\* held collections of several strings are drawn from this pool
HeldPool ==
  { Perm(Star, Actions(config)[Len(Actions(config))]),
    Perm(config.modules[1].name, Actions(config)[1]),
    Perm(config.modules[Len(config.modules)].name, Star),
    Tok("toString") }
  \cup RoleIds(config)

HeldChoices ==
  {{}} \cup {{h} : h \in QueryStrings}
  \cup {S \in SUBSET HeldPool : Cardinality(S) >= 2 /\ Cardinality(S) <= MaxHeld}

\* A query runs to completion before the next one is issued: ret holds what the
\* last call returned until the caller takes it.
HasPermission ==
  /\ pc = "ready"
  /\ ret.op = "none"
  /\ \E held \in HeldChoices, required \in QueryStrings :
       ret' = [op |-> "hasPermission", held |-> held, permission |-> required,
               value |-> hasPermission(config, graph, held, required)]
  /\ UNCHANGED <<mutations, config, pc, allPermissions, graph, next, visited, stack, cursor, fw,
                 error>>

WhatDoesPermissionGrant ==
  /\ pc = "ready"
  /\ ret.op = "none"
  /\ \E permission \in QueryStrings :
       ret' = [op |-> "whatDoesPermissionGrant", held |-> {}, permission |-> permission,
               value |-> whatDoesPermissionGrant(graph, permission)]
  /\ UNCHANGED <<mutations, config, pc, allPermissions, graph, next, visited, stack, cursor, fw,
                 error>>

\* getEffectivePermissions collecting into the Set the forward index holds for
\* the first held permission instead of a new Set
GetEffectivePermissionsInPlace ==
  /\ pc = "ready"
  /\ ret.op = "none"
  /\ \E held \in HeldChoices :
       /\ ret' = [op |-> "getEffectivePermissions", held |-> held, permission |-> <<>>,
                  value |-> getEffectivePermissions(graph, held)]
       /\ graph' = IF \E h \in held : h \in DOMAIN graph.grants
                     THEN LET h == CHOOSE h \in held : h \in DOMAIN graph.grants
                          IN [graph EXCEPT !.grants[h] = SetAdd(@, h)]
                     ELSE graph
  /\ UNCHANGED <<mutations, config, pc, allPermissions, next, visited, stack, cursor, fw, error>>

GetEffectivePermissions ==
  /\ pc = "ready"
  /\ ret.op = "none"
  /\ \E held \in HeldChoices :
       ret' = [op |-> "getEffectivePermissions", held |-> held, permission |-> <<>>,
               value |-> getEffectivePermissions(graph, held)]
  /\ UNCHANGED <<mutations, config, pc, allPermissions, graph, next, visited, stack, cursor, fw,
                 error>>

WhoGrantsPermission ==
  /\ pc = "ready"
  /\ ret.op = "none"
  /\ \E permission \in QueryStrings :
       ret' = [op |-> "whoGrantsPermission", held |-> {}, permission |-> permission,
               value |-> whoGrantsPermission(allPermissions, graph, permission)]
  /\ UNCHANGED <<mutations, config, pc, allPermissions, graph, next, visited, stack, cursor, fw,
                 error>>

GetStats ==
  /\ pc = "ready"
  /\ ret.op = "none"
  /\ ret' = [op |-> "getStats", held |-> {}, permission |-> <<>>,
             value |-> getStats(config, allPermissions, graph)]
  /\ UNCHANGED <<mutations, config, pc, allPermissions, graph, next, visited, stack, cursor, fw,
                 error>>

VisualizeGraph ==
  /\ pc = "ready"
  /\ ret.op = "none"
  /\ ret' = [op |-> "visualizeGraph", held |-> {}, permission |-> <<>>,
             value |-> visualizeGraph(graph)]
  /\ UNCHANGED <<mutations, config, pc, allPermissions, graph, next, visited, stack, cursor, fw,
                 error>>

CheckPermissionDetailed ==
  /\ pc = "ready"
  /\ ret.op = "none"
  /\ \E held \in HeldChoices, required \in QueryStrings :
       ret' = [op |-> "checkPermissionDetailed", held |-> held, permission |-> required,
               value |-> checkPermissionDetailed(config, graph, held, required)]
  /\ UNCHANGED <<mutations, config, pc, allPermissions, graph, next, visited, stack, cursor, fw,
                 error>>

\* the caller takes the result; the instance is ready for the next query
Return ==
  /\ pc = "ready"
  /\ ret.op # "none"
  /\ ret' = NoQuery
  /\ UNCHANGED <<mutations, config, pc, allPermissions, graph, next, visited, stack, cursor, fw,
                 error>>

(***************************************************************************)
(* Callers that modify the Sets queries return                             *)
(***************************************************************************)
MaxMutations == 1

ReturnedSetOps ==
  {"whatDoesPermissionGrant", "whoGrantsPermission", "getEffectivePermissions"}

\* line 392 returns the Set the forward index holds when the key exists,
\* lines 362 and 380 return a new Set
ReturnsIndexSet ==
  ret.op = "whatDoesPermissionGrant" /\ ret.permission \in DOMAIN graph.grants

\* the strings a caller adds to or deletes from a returned Set
CallerStrings ==
  {Tok("ghost"),
   Perm(config.modules[1].name, Actions(config)[Len(Actions(config))])}

\* the caller calls add(e) on the Set it was given
CallerAdds ==
  /\ pc = "ready"
  /\ ret.op \in ReturnedSetOps
  /\ mutations < MaxMutations
  /\ \E e \in CallerStrings \ ret.value :
       /\ ret' = [ret EXCEPT !.value = @ \cup {e}]
       /\ graph' = IF ReturnsIndexSet
                     THEN [graph EXCEPT !.grants[ret.permission] = Append(@, e)]
                     ELSE graph
  /\ mutations' = mutations + 1
  /\ UNCHANGED <<config, pc, allPermissions, next, visited, stack, cursor, fw, error>>

\* the caller calls delete(e) on the Set it was given
CallerDeletes ==
  /\ pc = "ready"
  /\ ret.op \in ReturnedSetOps
  /\ mutations < MaxMutations
  /\ \E e \in CallerStrings \cap ret.value :
       /\ ret' = [ret EXCEPT !.value = @ \ {e}]
       /\ graph' = IF ReturnsIndexSet
                     THEN [graph EXCEPT !.grants[ret.permission] =
                                          SelectSeq(@, LAMBDA x : x # e)]
                     ELSE graph
  /\ mutations' = mutations + 1
  /\ UNCHANGED <<config, pc, allPermissions, next, visited, stack, cursor, fw, error>>

Next ==
  \/ GenerateAllPermissions
  \/ ValidateRolePermissions
  \/ AddGrant
  \/ BuildReturn
  \/ DetectCall
  \/ DetectVisit
  \/ DetectReturn
  \/ DetectDone
  \/ ClosureStep
  \/ ClosureDone
  \/ HasPermission
  \/ WhatDoesPermissionGrant
  \/ GetEffectivePermissions
  \/ WhoGrantsPermission
  \/ GetStats
  \/ VisualizeGraph
  \/ CheckPermissionDetailed
  \/ Return

Spec == Init /\ [][Next]_vars

\* the configurations instances with modifying callers are built from
CallerConfigs ==
  {[modules |-> RoleBaseModules, hierarchy |-> Given(SmallHierarchy), roles |-> Absent],
   [modules |-> RoleBaseModules, hierarchy |-> Given(SmallHierarchy),
    roles |-> Given(<< Role("viewer", <<profileRead>>, <<>>),
                       Role("admin", <<usersWrite>>, <<Tok("viewer")>>) >>)]}

InitCallers == Init /\ config \in CallerConfigs

NextCallers == Next \/ CallerAdds \/ CallerDeletes

SpecCallers == InitCallers /\ [][NextCallers]_vars


(***************************************************************************)
(* Reachability in the direct-edge graph, computed apart from the closure  *)
(***************************************************************************)
Catalog == Range(allPermissions)

\* the direct edges the graph builder produces for the configuration
DirectEdges == Range(buildPermissionGraph(config))

Nodes(E) == {e[1] : e \in E} \cup {e[2] : e \in E}

\* the successor sets of the relation E
SuccFn(E) == [n \in Nodes(E) |-> {e[2] : e \in {d \in E : d[1] = n}}]

RECURSIVE Expand(_, _, _)
Expand(succ, frontier, seen) ==
  IF frontier = {} THEN seen
  ELSE LET new == UNION {succ[n] : n \in frontier} \ seen
       IN Expand(succ, new, seen \cup new)

\* the nodes a path of one or more edges leads to from n
ReachVia(succ, n) ==
  IF n \in DOMAIN succ THEN Expand(succ, succ[n], succ[n]) ELSE {}

ReachFrom(E, n) == ReachVia(SuccFn(E), n)

HasCycle(E) == LET succ == SuccFn(E) IN \E n \in DOMAIN succ : n \in ReachVia(succ, n)

\* the pairs of the forward index
GraphEdges(g) ==
  UNION {{<<a, b>> : b \in Range(g.grants[a])} : a \in DOMAIN g.grants}

Ready == pc = "ready"

(***************************************************************************)
(* C1  In every Ready instance the forward relation exposed by whatGrants  *)
(* is transitively closed: for all permission strings p, q, r, if q is in  *)
(* whatGrants(p) and r is in whatGrants(q) then r is in whatGrants(p).     *)
(***************************************************************************)
C1_TransitivelyClosed ==
  Ready =>
    \A p \in QueryStrings :
      \A q \in whatDoesPermissionGrant(graph, p) :
        \A r \in whatDoesPermissionGrant(graph, q) :
          r \in whatDoesPermissionGrant(graph, p)

(***************************************************************************)
(* C2  The single closure pass reaches the reachability fixed point: after *)
(* construction, for all catalog members p and q, q is in whatGrants(p) if *)
(* and only if the direct graph of the graph builder contains a path of    *)
(* one or more edges from p to q.                                          *)
(***************************************************************************)
C2_ClosureIsReachability ==
  Ready =>
    LET succ == SuccFn(DirectEdges) IN
    \A p \in Catalog :
      whatDoesPermissionGrant(graph, p) \cap Catalog = ReachVia(succ, p) \cap Catalog

\* a Ready instance in which the closure added a pair that is no direct edge,
\* at the end of a path of three direct edges
C2_Witness ==
  /\ Ready
  /\ \E p, q \in Catalog :
       /\ Has(graph, p, q)
       /\ <<p, q>> \notin DirectEdges
       /\ \A m \in Catalog : ~(<<p, m>> \in DirectEdges /\ <<m, q>> \in DirectEdges)


(***************************************************************************)
(* C3  Construction fails with a circular-dependency error if and only if  *)
(* the direct-edge graph of a configuration that passed role validation    *)
(* contains a directed cycle; no acyclic configuration is rejected by the  *)
(* cycle detector.  The detector never stops before it has thrown or       *)
(* covered the catalog.                                                    *)
(***************************************************************************)
C3_CycleRejection ==
  /\ error.kind = "CircularDependency" => pc = "failed" /\ HasCycle(DirectEdges)
  /\ pc \in {"applyFloydWarshallTransitiveClosure", "ready"} => ~HasCycle(DirectEdges)
  /\ pc = "detectCircularDependencies" =>
       ENABLED (DetectCall \/ DetectVisit \/ DetectReturn \/ DetectDone)

\* two roles that inherit each other were rejected by the cycle detector
C3_Witness ==
  /\ pc = "failed"
  /\ error.kind = "CircularDependency"
  /\ config.roles.present
  /\ \E x, y \in 1..Len(config.roles.value) :
       /\ x # y
       /\ config.roles.value[y].id \in Range(config.roles.value[x].inherits)
       /\ config.roles.value[x].id \in Range(config.roles.value[y].inherits)

(***************************************************************************)
(* C4  Construction is all-or-nothing and ordered: the stages run as       *)
(* catalog generation, role validation, graph build, cycle detection,      *)
(* transitive closure; an instance becomes Ready, and a query is issued,   *)
(* only if every stage succeeded, and the closure stage never runs on a    *)
(* graph that contains a cycle.                                            *)
(***************************************************************************)
Stages ==
  << "generateAllPermissions", "validateRolePermissions", "buildPermissionGraph",
     "detectCircularDependencies", "applyFloydWarshallTransitiveClosure", "ready" >>

StageIndex(s) == CHOOSE x \in 1..Len(Stages) : Stages[x] = s

C4_StageStep ==
  pc' # pc =>
    /\ pc # "failed"
    /\ \/ pc' = "failed" /\ pc \in {"validateRolePermissions", "detectCircularDependencies"}
       \/ pc' # "failed" /\ StageIndex(pc') = StageIndex(pc) + 1

C4_StageInv ==
  /\ ret.op # "none" => Ready
  /\ pc = "failed" <=> error # NoError
  /\ pc = "applyFloydWarshallTransitiveClosure" => ~HasCycle(GraphEdges(graph))
  /\ Ready =>
       /\ allPermissions = generateAllPermissions(config)
       /\ validateRolePermissions(config, Catalog) = NoError
       /\ DirectEdges \subseteq GraphEdges(graph)
       /\ ~HasCycle(DirectEdges)
       /\ Catalog \subseteq visited /\ stack = <<>>
       /\ \A p \in Catalog :
            \A q \in whatDoesPermissionGrant(graph, p) \cap Catalog :
              whatDoesPermissionGrant(graph, q) \cap Catalog
                \subseteq whatDoesPermissionGrant(graph, p)

C4_AllOrNothing == [] C4_StageInv /\ [][C4_StageStep]_vars

\* a Ready instance answering a query, and so one that went through all stages
C4_Witness == Ready /\ ret.op = "hasPermission" /\ config.roles.present

(***************************************************************************)
(* C5  The forward and reverse indices are mirror images in every state    *)
(* reached during and after construction: q is in forward[p] if and only   *)
(* if p is in reverse[q], for all nodes p and q.                           *)
(***************************************************************************)
ReverseEdges(g) ==
  UNION {{<<a, b>> : a \in g.grantedBy[b]} : b \in DOMAIN g.grantedBy}

C5_Mirror == GraphEdges(graph) = ReverseEdges(graph)

\* the closure is under way and has inserted a pair that is no direct edge
C5_Witness ==
  /\ pc = "applyFloydWarshallTransitiveClosure"
  /\ \E e \in GraphEdges(graph) : e \notin DirectEdges


(***************************************************************************)
(* Scopes and the action hierarchy, read off the configuration             *)
(***************************************************************************)
ModuleIndexes == 1..Len(config.modules)

ModuleScopes(m) ==
  {m.name} \cup {ResourceName(m.name, m.resources[y]) : y \in 1..Len(m.resources)}

ResourceScopes(m) == ModuleScopes(m) \ {m.name}

Scopes == {Star} \cup UNION {ModuleScopes(config.modules[x]) : x \in ModuleIndexes}

KnownActions == Range(Actions(config))

\* the mapping of the hierarchy as a relation on action names
HierarchyEdges ==
  UNION {{<<ActionHierarchy(config)[x].action, b>> :
            b \in Range(ActionHierarchy(config)[x].implied)} :
         x \in 1..Len(ActionHierarchy(config))}

\* every action name the hierarchy mentions, and the wildcard
ActionWords == KnownActions \cup Nodes(HierarchyEdges) \cup {Star}

\* the last query was hasPermission([held], required)
Asked(held, required) ==
  ret.op = "hasPermission" /\ ret.held = {held} /\ ret.permission = required

(***************************************************************************)
(* C6  hasPermission(held, required) returns true whenever required is     *)
(* equal to some element of held, and otherwise returns true exactly when  *)
(* required is in the closed forward set of some element of held; this     *)
(* holds for every held collection and every required string.  An element  *)
(* of held that is the bare id of a declared role stands for role:id, and  *)
(* only such an element does.                                              *)
(***************************************************************************)
DeclaredQualified(h) == IF h \in RoleIds(config) THEN RoleNode(h) ELSE h

C6_HasPermission ==
  ret.op = "hasPermission" =>
    ret.value =
      \E h \in ret.held :
        \/ DeclaredQualified(h) = ret.permission
        \/ ret.permission \in whatDoesPermissionGrant(graph, DeclaredQualified(h))

C8_ModuleCascade ==
  ret.op = "hasPermission" =>
    \A x \in ModuleIndexes :
      \A s \in ResourceScopes(config.modules[x]) :
        \A A \in KnownActions :
          \A B \in {A} \cup ReachFrom(HierarchyEdges, A) :
            Asked(Perm(config.modules[x].name, A), Perm(s, B)) => ret.value

(***************************************************************************)
(* C9  The global wildcard action cascades to every module and resource:   *)
(* for every known action A, holding *:A implies m:B and m.r:B for every   *)
(* module m, every resource r of m and every action B equal to A or        *)
(* reachable from A in the hierarchy, and implies no m:B or m.r:B for an   *)
(* action B that is neither.                                               *)
(***************************************************************************)
C9_GlobalCascade ==
  ret.op = "hasPermission" =>
    \A s \in Scopes \ {Star} :
      \A A \in KnownActions :
        \A B \in ActionWords \ {Star} :
          Asked(Perm(Star, A), Perm(s, B)) =>
            ret.value = (B = A \/ B \in ReachFrom(HierarchyEdges, A))

(***************************************************************************)
(* C10  Implication never crosses modules or flows upward: without roles,  *)
(* for distinct modules m and n no permission scoped to m or to a resource *)
(* of m implies a permission scoped to n or to a resource of n; and no     *)
(* resource-scoped permission m.r:A implies a module-scoped permission     *)
(* m:B, a global permission *:B or a permission of a sibling resource.     *)
(***************************************************************************)
C10_NoCrossNoUpward ==
  ret.op = "hasPermission" /\ ~config.roles.present =>
    \A x \in ModuleIndexes :
      LET m == config.modules[x] IN
      \A A, B \in ActionWords :
        /\ \A y \in ModuleIndexes \ {x} :
             \A sm \in ModuleScopes(m), sn \in ModuleScopes(config.modules[y]) :
               Asked(Perm(sm, A), Perm(sn, B)) => ~ret.value
        /\ \A sr \in ResourceScopes(m) :
             \A up \in {m.name, Star} \cup (ResourceScopes(m) \ {sr}) :
               Asked(Perm(sr, A), Perm(up, B)) => ~ret.value

\* a resource permission was checked against its own module's and refused
C10_Witness ==
  /\ ~config.roles.present
  /\ \E x \in ModuleIndexes :
       \E sr \in ResourceScopes(config.modules[x]) :
         \E A \in KnownActions :
           Asked(Perm(sr, A), Perm(config.modules[x].name, A))
  /\ ~ret.value

(***************************************************************************)
(* C11  Role composition and inheritance: for every declared role r,       *)
(* whatGrants(`role:r`) is exactly the set of nodes reachable by one or    *)
(* more direct edges from `role:r`: every permission r grants directly,    *)
(* everything those imply through hierarchy and cascades, everything       *)
(* granted by any role reachable through inherits or nested role: grants,  *)
(* and nothing else.                                                       *)
(***************************************************************************)
C11_RoleReach ==
  Ready =>
    \A r \in RoleIds(config) :
       whatDoesPermissionGrant(graph, RoleNode(r)) = ReachFrom(DirectEdges, RoleNode(r))

(***************************************************************************)
(* C12  Bare role ids are auto-qualified: for every declared role id r and *)
(* every required string q, hasPermission([r], q) returns the same result  *)
(* as hasPermission([`role:` + r], q); a held string that does not name a  *)
(* declared role is never qualified.                                       *)
(***************************************************************************)
C12_AutoQualify ==
  (Ready /\ ret.op = "hasPermission") =>
    \A h \in ret.held :
       ret.held = {h} =>
         IF h \in RoleIds(config)
           THEN ret.value = hasPermission(config, graph, {RoleNode(h)}, ret.permission)
           ELSE ret.value = (h = ret.permission \/ Has(graph, h, ret.permission))

(***************************************************************************)
(* C13  Role validation fails exactly when some role has a grant string or *)
(* an inherited parent id that is not backed by the catalog, and the error *)
(* kind matches the offending reference: a non-`role:` grant absent from   *)
(* the catalog yields an unknown-permission error naming the role and the  *)
(* string, a `role:` grant naming an undeclared role an unknown-role-      *)
(* reference error, an inherited parent id whose `role:parentId` is absent *)
(* an unknown-parent-role error.  A configuration whose every grant and    *)
(* parent is in the catalog is never rejected by the validator; an invalid *)
(* grant mixed with valid ones in one role is caught.                      *)
(***************************************************************************)
DeclaredRoles == IF config.roles.present THEN Range(config.roles.value) ELSE {}

\* the references of the configuration the catalog does not back
Unbacked ==
  {Failure(IF StartsWithRole(p) THEN "InvalidRoleReference" ELSE "InvalidPermission",
           r.id, p) :
     <<r, p>> \in {<<r, p>> \in DeclaredRoles \X UNION {Range(r.permissions) : r \in DeclaredRoles} :
                     p \in Range(r.permissions) /\ p \notin Catalog}}
  \cup
  {Failure("NonExistentParent", r.id, q) :
     <<r, q>> \in {<<r, q>> \in DeclaredRoles \X UNION {Range(r.inherits) : r \in DeclaredRoles} :
                     q \in Range(r.inherits) /\ RoleNode(q) \notin Catalog}}

ValidationKinds == {"InvalidRoleReference", "InvalidPermission", "NonExistentParent"}

C13_Validation ==
  pc \notin {"generateAllPermissions", "validateRolePermissions"} =>
    /\ (error.kind \in ValidationKinds) <=> (Unbacked # {})
    /\ Unbacked # {} => (pc = "failed" /\ error \in Unbacked)

\* the role admin grants users:read and users:fake_action; the second is caught
C13_Witness ==
  /\ pc = "failed"
  /\ usersRead \in Catalog
  /\ error = Failure("InvalidPermission", Tok("admin"), Perm(Tok("users"), Tok("fake_action")))

(***************************************************************************)
(* C14  Direct implication edges connect catalog members only: for every   *)
(* edge (p, q) recorded by the graph builder, and therefore for every pair *)
(* in the closed forward and reverse indices, both p and q are members of  *)
(* the catalog.                                                            *)
(***************************************************************************)
C14_EdgesWithinCatalog ==
  Ready =>
    /\ \A e \in DirectEdges : e[1] \in Catalog /\ e[2] \in Catalog
    /\ \A e \in GraphEdges(graph) \cup ReverseEdges(graph) :
          e[1] \in Catalog /\ e[2] \in Catalog

(***************************************************************************)
(* C15  The catalog is exactly the set {`*:a`} for every known action a,   *)
(* plus {`m:*`, `m:a`} for every module m and action a, plus {`m.r:*`,     *)
(* `m.r:a`} for every resource r of m and action a, plus {`role:id`} for   *)
(* every declared role id, and contains no other string; catalog           *)
(* generation has no failure mode for any configuration.                   *)
(***************************************************************************)
CatalogAsSpecified ==
  {Perm(Star, a) : a \in KnownActions}
  \cup {Perm(s, a) : s \in Scopes \ {Star}, a \in KnownActions \cup {Star}}
  \cup {RoleNode(r) : r \in RoleIds(config)}

C16_ScopeWildcards ==
  Ready =>
    LET succ == SuccFn(DirectEdges) IN
    \A x \in ModuleIndexes :
       LET m == config.modules[x]
           all == Perm(m.name, Star)
       IN /\ \A a \in KnownActions : hasPermission(config, graph, {all}, Perm(m.name, a))
          /\ \A s \in ResourceScopes(m) :
                /\ hasPermission(config, graph, {all}, Perm(s, Star))
                /\ \A a \in KnownActions :
                      /\ hasPermission(config, graph, {all}, Perm(s, a))
                      /\ hasPermission(config, graph, {Perm(s, Star)}, Perm(s, a))
          /\ \A w \in {all} \cup {Perm(s, Star) : s \in ResourceScopes(m)}
                       \cup {Perm(Star, a) : a \in KnownActions} :
                whatDoesPermissionGrant(graph, w) \cap Catalog
                  = ReachVia(succ, w) \cap Catalog

C16_Witness ==
  /\ Ready
  /\ ret.op = "hasPermission"
  /\ ret.held = {Perm(Tok("users"), Star)}
  /\ ret.permission = Perm(ResourceName(Tok("users"), Tok("settings")), Tok("read"))
  /\ ret.value = TRUE

(***************************************************************************)
(* C17  Once an instance is Ready, the catalog and both graph indices      *)
(* never change: after any sequence of hasPermission, effectivePermissions,*)
(* whoGrants, whatGrants, stats, visualize and checkDetailed calls the     *)
(* catalog, forward index and reverse index are identical to their values  *)
(* at the end of construction, and each call returns the result it would   *)
(* return on a freshly built instance of the same configuration.           *)
(***************************************************************************)
\* what the call recorded in ret returns on an instance holding catalog all
\* and graph g
Answer(c, all, g) ==
  CASE ret.op = "hasPermission" -> hasPermission(c, g, ret.held, ret.permission)
    [] ret.op = "whatDoesPermissionGrant" -> whatDoesPermissionGrant(g, ret.permission)
    [] ret.op = "getEffectivePermissions" -> getEffectivePermissions(g, ret.held)
    [] ret.op = "whoGrantsPermission" -> whoGrantsPermission(all, g, ret.permission)
    [] ret.op = "getStats" -> getStats(c, all, g)
    [] ret.op = "visualizeGraph" -> visualizeGraph(g)
    [] ret.op = "checkPermissionDetailed" ->
         checkPermissionDetailed(c, g, ret.held, ret.permission)

\* a step of a Ready instance leaves it Ready with the same configuration,
\* catalog and graph
C17_Step ==
  Ready => /\ Ready'
           /\ config' = config
           /\ allPermissions' = allPermissions
           /\ graph' = graph

\* the result of a call is the one the instance gives after the call as well
C17_Answer ==
  (Ready /\ ret.op # "none") => ret.value = Answer(config, allPermissions, graph)

C17_Frozen == [][C17_Step]_vars /\ []C17_Answer

C17_Witness ==
  /\ Ready
  /\ ret.op = "getEffectivePermissions"
  /\ Cardinality(ret.held) = MaxHeld
  /\ \E h \in ret.held : h \in DOMAIN graph.grants /\ h \notin Range(graph.grants[h])
  /\ ret.value \ ret.held # {}

(***************************************************************************)
(* C18  Closure is idempotent: running the closure procedure a second time *)
(* on the graph left by construction adds no pair to the forward index and *)
(* no pair to the reverse index.                                           *)
(***************************************************************************)
\* Every iteration (k, i, j) of a second run that reaches lines 324-325
\* leaves the graph as it is; the tests of lines 321 and 323 of all later
\* iterations are therefore made on the same graph.  The graph is looked at
\* when no query result is pending; it is the same in every Ready state (C17).
C18_Idempotent ==
  (Ready /\ ret.op = "none") =>
    \A i \in Catalog \cap DOMAIN graph.grants :
       \A k \in Catalog \cap Range(graph.grants[i]) :
          \A j \in Catalog \cap Range(MapGet(graph.grants, k, <<>>)) :
             closureInsert(graph, i, j) = graph

\* the closure has added pairs, and a second run reaches line 324
C18_Witness ==
  /\ Ready
  /\ ret.op = "none"
  /\ GraphEdges(graph) \ DirectEdges # {}
  /\ FirstHit(graph, allPermissions, 1, 1, 1).found

(***************************************************************************)
(* C19  Query operations are total and unrecognized strings are inert: in  *)
(* a Ready instance no query raises an error for any string input, and for *)
(* a string that is not a member of the catalog hasPermission with that    *)
(* string as the required permission returns false, and whoGrants and      *)
(* whatGrants of that string return the empty set.  (A required string     *)
(* that is itself held is granted by equality and is not counted here.)    *)
(***************************************************************************)
C19_UnrecognizedInert ==
  (Ready /\ ret.permission \notin Catalog) =>
    /\ (ret.op = "hasPermission"
          /\ ret.permission \notin {DeclaredQualified(h) : h \in ret.held})
         => ret.value = FALSE
    /\ ret.op = "whoGrantsPermission" => ret.value = {}
    /\ ret.op = "whatDoesPermissionGrant" => ret.value = {}

C21_Union ==
  (Ready /\ ret.op = "getEffectivePermissions") =>
    ret.value = ret.held \cup UNION {whatDoesPermissionGrant(graph, h) : h \in ret.held}

C21_EffectivePermissions ==
  (Ready /\ ret.op = "getEffectivePermissions") =>
    /\ C21_Union
    /\ \A x \in ModuleIndexes :
         LET m == config.modules[x] IN
         \A A \in KnownActions :
            ret.held = {Perm(m.name, A)} =>
              \A B \in {A} \cup ReachFrom(HierarchyEdges, A) :
                 \A s \in ModuleScopes(m) : Perm(s, B) \in ret.value

(***************************************************************************)
(* C22  stats() reports the configuration and graph faithfully: modules    *)
(* equals the number of module keys, resources equals the sum of the       *)
(* resource-list lengths over all modules, actions equals the number of    *)
(* hierarchy keys, totalPermissions equals the catalog size, and           *)
(* grantRelationships equals the number of (p, q) pairs in the closed      *)
(* forward index.                                                          *)
(***************************************************************************)
\* the (module, position) pairs of the declared resources
DeclaredResources ==
  {<<x, y>> \in ModuleIndexes \X (1..Cardinality(Scopes)) :
     y <= Len(config.modules[x].resources)}

C22_Stats ==
  (Ready /\ ret.op = "getStats") =>
    /\ ret.value.modules = Cardinality({config.modules[x].name : x \in ModuleIndexes})
    /\ ret.value.resources = Cardinality(DeclaredResources)
    /\ ret.value.actions = Cardinality({e.action : e \in Range(ActionHierarchy(config))})
    /\ ret.value.totalPermissions = Cardinality(Catalog)
    /\ ret.value.grantRelationships = Cardinality(GraphEdges(graph))

C22_Witness ==
  /\ Ready
  /\ ret.op = "getStats"
  /\ config.hierarchy.present
  /\ ret.value.modules = 2
  /\ ret.value.resources = 1
  /\ ret.value.grantRelationships > ret.value.totalPermissions

(***************************************************************************)
(* C23  visualize() is a deterministic, sorted dump of the forward         *)
(* adjacency: its output is a function of the closed forward relation      *)
(* alone, grantor blocks appear in sorted order and the grantees inside     *)
(* each block appear in sorted order, so two instances with the same       *)
(* forward relation (for example the same modules declared in a different  *)
(* key order) produce identical text.                                      *)
(***************************************************************************)
\* the strings of the set S in ascending order
RECURSIVE Ascending(_)
Ascending(S) ==
  IF S = {} THEN <<>>
  ELSE LET least == CHOOSE a \in S : \A b \in S \ {a} : StringLess(a, b)
       IN <<least>> \o Ascending(S \ {least})

\* the text of the relation E: one block per grantor, grantors ascending,
\* grantees ascending inside each block
SortedDump(E) ==
  LET grantors == Ascending({e[1] : e \in E})
      block(p) == << p \o <<" grants:">> >>
                  \o [y \in 1..Cardinality({e \in E : e[1] = p}) |->
                        <<Branch>> \o Ascending({e[2] : e \in {d \in E : d[1] = p}})[y]]
                  \o << <<>> >>
  IN Join(Concat([x \in 1..Len(grantors) |-> block(grantors[x])]))

C23_SortedDump ==
  (Ready /\ ret.op = "visualizeGraph") => ret.value = SortedDump(GraphEdges(graph))

(***************************************************************************)
(* C24  Validation precedes graph work: role validation completes over the *)
(* whole configuration before any edge is built, cycle-checked or closed,  *)
(* so a configuration that contains both an invalid role reference and a   *)
(* cycle (two mutually inheriting roles, one of which grants an unknown    *)
(* permission) fails with the validation error and never with the          *)
(* circular-dependency error.                                              *)
(***************************************************************************)
GraphStages ==
  {"buildPermissionGraph", "detectCircularDependencies",
   "applyFloydWarshallTransitiveClosure", "ready"}

C24_ValidationFirst ==
  /\ (pc \in GraphStages \/ graph # EmptyGraph \/ visited # {}) => Unbacked = {}
  /\ error.kind = "CircularDependency" => Unbacked = {}
  /\ (pc = "failed" /\ Unbacked # {}) =>
        (error.kind \in ValidationKinds /\ graph = EmptyGraph)

C24_Witness ==
  /\ pc = "failed"
  /\ error.kind = "InvalidPermission"
  /\ graph = EmptyGraph
  /\ HasCycle(DirectEdges)

(***************************************************************************)
(* C25  Whenever the cycle detector raises the circular-dependency error,  *)
(* the node named in the error lies on a directed cycle of the direct-edge *)
(* graph: there is a path of one or more direct edges from that node back  *)
(* to itself, for every catalog iteration order and every edge iteration   *)
(* order.                                                                  *)
(***************************************************************************)
C25_NamedNodeOnCycle ==
  error.kind = "CircularDependency" =>
    /\ pc = "failed"
    /\ error.subject \in ReachFrom(DirectEdges, error.subject)
    /\ error.subject \in StackNodes(stack)

\* the named node is not the catalog member the search started from
C25_Witness ==
  /\ error.kind = "CircularDependency"
  /\ Len(stack) > 1
  /\ error.subject # stack[1].node

(***************************************************************************)
(* C26  hasPermission and effectivePermissions agree: for every held       *)
(* collection (catalog strings, arbitrary strings, or bare ids of declared *)
(* roles) and every string q, hasPermission(held, q) is true if and only   *)
(* if q is a member of effectivePermissions(held).                         *)
(***************************************************************************)
C26_Agree ==
  (Ready /\ ret.op = "hasPermission") =>
    ret.value = (ret.permission \in getEffectivePermissions(graph, ret.held))

(***************************************************************************)
(* C27  Query results do not alias the engine's internal state: a caller   *)
(* that adds elements to or removes elements from a set returned by        *)
(* whatGrants, whoGrants or effectivePermissions does not change the       *)
(* result of any later hasPermission, whatGrants, whoGrants,               *)
(* effectivePermissions, stats or visualize call on the same instance.     *)
(***************************************************************************)
\* a step in which a caller modifies a returned Set leaves every answer of
\* the instance as it was
C27_CallerStep ==
  mutations' # mutations =>
    /\ \A p \in QueryStrings :
          /\ whatDoesPermissionGrant(graph', p) = whatDoesPermissionGrant(graph, p)
          /\ whoGrantsPermission(allPermissions', graph', p)
               = whoGrantsPermission(allPermissions, graph, p)
    /\ \A held \in HeldChoices :
          /\ getEffectivePermissions(graph', held) = getEffectivePermissions(graph, held)
          /\ \A q \in QueryStrings :
                hasPermission(config', graph', held, q) = hasPermission(config, graph, held, q)
    /\ getStats(config', allPermissions', graph') = getStats(config, allPermissions, graph)
    /\ visualizeGraph(graph') = visualizeGraph(graph)

C27_NoAliasing == [][C27_CallerStep]_vars

(***************************************************************************)
(* C28  Roles cannot be acquired through ordinary permissions: in every    *)
(* Ready instance, for every declared role id r, every element of          *)
(* whoGrants(`role:r`) other than `role:r` itself is the node of another   *)
(* declared role that reaches r through inherits or nested `role:` grants; *)
(* no global, module-scoped or resource-scoped permission generated from   *)
(* the modules implies a role node, for every choice of module, resource   *)
(* and role names (including a module literally named `role`).             *)
(***************************************************************************)
\* the inherits and nested-grant edges between the declared roles
RoleToRoleEdges ==
  UNION {{<<r.id, q>> : q \in Range(r.inherits)}
         \cup {<<r.id, q>> : q \in {q \in RoleIds(config) : RoleNode(q) \in Range(r.permissions)}} :
         r \in DeclaredRoles}

\* the permissions generated from the modules and the hierarchy
OrdinaryPermissions == {Perm(s, a) : s \in Scopes, a \in KnownActions \cup {Star}}

C28_RolesNotAcquired ==
  Ready =>
    \A r \in RoleIds(config) :
       /\ whoGrantsPermission(allPermissions, graph, RoleNode(r)) \ {RoleNode(r)}
            = {RoleNode(q) : q \in {q \in RoleIds(config) \ {r} :
                                      r \in ReachFrom(RoleToRoleEdges, q)}}
       /\ \A p \in OrdinaryPermissions :
             ~hasPermission(config, graph, {p}, RoleNode(r))

(***************************************************************************)
(* C29  In every Ready instance the closed forward relation is a strict    *)
(* partial order on its nodes: no permission p is a member of its own      *)
(* whatGrants(p), and there are no two distinct permissions p and q with q *)
(* in whatGrants(p) and p in whatGrants(q).                                *)
(***************************************************************************)
\* no permission grants itself, no two permissions grant each other
C29_NoMutualGrant ==
  Ready =>
    LET E == GraphEdges(graph) IN
    \A e \in E : e[1] # e[2] /\ <<e[2], e[1]>> \notin E

\* and the relation is transitive
C29_StrictPartialOrder ==
  Ready =>
    /\ C29_NoMutualGrant
    /\ \A p \in DOMAIN graph.grants :
          \A q \in whatDoesPermissionGrant(graph, p) :
             whatDoesPermissionGrant(graph, q) \subseteq whatDoesPermissionGrant(graph, p)

(***************************************************************************)
(* C30  The configuration shipped as DEFAULT_RBAC_CONFIG (modules plus the *)
(* roles super_admin, system_admin, editor, viewer), which the demo server *)
(* passes to the constructor at start-up, is accepted: construction passes *)
(* role validation and cycle detection and reaches Ready, after which      *)
(* `role:system_admin` implies everything `role:editor` and `role:viewer`  *)
(* imply.                                                                  *)
(***************************************************************************)
C30_DefaultAccepted ==
  config = DEFAULT_RBAC_CONFIG =>
    /\ pc # "failed"
    /\ Ready =>
         \A r \in {Tok("editor"), Tok("viewer")} :
            whatDoesPermissionGrant(graph, RoleNode(r))
              \subseteq whatDoesPermissionGrant(graph, RoleNode(Tok("system_admin")))

====
